---------------------------- MODULE Spec2Model ----------------------------
(***************************************************************************)
(* PromptForge-Vision: the /generate request handler of api.py (prompt     *)
(* enhancement, image generation, delivery), its keep-awake thread, and    *)
(* the streaming extraction loop of the app.py dashboard.                  *)
(*                                                                         *)
(* Python str values are TLA+ strings, bytes values are sequences of       *)
(* integers in 0..255.  The three external services (text model, image     *)
(* model, ImgBB) are the environment: each call returns one value drawn    *)
(* from a finite set of responses.                                         *)
(***************************************************************************)
EXTENDS Integers, Sequences, FiniteSets, TLC

VARIABLES
    request,        \* r -> the ImageRequest body of request r (api.py:44-49)
    pc,             \* r -> position of request r inside generate_image
    local,          \* r -> the locals of generate_image for request r
    calls,          \* r -> the external capabilities invoked so far, in order
    cause,          \* r -> text of the exception first raised in the try block
    outcome,        \* r -> the HTTP answer of request r
    ka_pc,          \* position of the keep_awake thread (api.py:12-24)
    ka_last,        \* what the last finished keep_awake iteration printed
    running,        \* FALSE once the server process has shut down
    st_pc,          \* position of the dashboard's streaming loop (app.py:86-111)
    seen,           \* the parts the stream has delivered so far, in order
    image_found,    \* app.py: image_found
    shown,          \* payloads handed to st.image, in order
    messages,       \* texts handed to st.info as "Model Message"
    notice,         \* app.py:111 was executed
    api_result      \* api.py:130-139 applied to the same parts

reqVars  == <<request, pc, local, calls, cause, outcome>>
kaVars   == <<ka_pc, ka_last, running>>
dashVars == <<st_pc, seen, image_found, shown, messages, notice, api_result>>
vars     == <<request, pc, local, calls, cause, outcome, ka_pc, ka_last, running,
              st_pc, seen, image_found, shown, messages, notice, api_result>>

---------------------------------------------------------------------------
(* Bounds of the model.                                                    *)

\* longest image payload (bytes) the image model returns
MaxBytes == 3
\* most parts one image-model stream delivers to the dashboard
MaxParts == 3

---------------------------------------------------------------------------
(* Strings.                                                                *)

Range(s) == { s[i] : i \in 1..Len(s) }

Char(s, i) == SubSeq(s, i, i)

\* the characters str.strip() removes
Whitespace == {" ", "\t", "\n"}

RECURSIVE LStrip(_)
LStrip(s) ==
    IF Len(s) > 0 /\ Char(s, 1) \in Whitespace
    THEN LStrip(SubSeq(s, 2, Len(s)))
    ELSE s

RECURSIVE RStrip(_)
RStrip(s) ==
    IF Len(s) > 0 /\ Char(s, Len(s)) \in Whitespace
    THEN RStrip(SubSeq(s, 1, Len(s) - 1))
    ELSE s

\* str.strip()
Strip(s) == RStrip(LStrip(s))

Contains(s, sub) ==
    \E i \in 1..(Len(s) - Len(sub) + 1) : SubSeq(s, i, i + Len(sub) - 1) = sub

StartsWith(s, prefix) ==
    Len(s) >= Len(prefix) /\ SubSeq(s, 1, Len(prefix)) = prefix

---------------------------------------------------------------------------
(* base64.                                                                 *)

B64Alphabet == "ABCDEFGHIJKLMNOPQRSTUVWXYZabcdefghijklmnopqrstuvwxyz0123456789+/"

B64Char(i) == Char(B64Alphabet, i + 1)

\* the first three bytes of b (missing ones as 0) as one 24-bit number
Group24(b) ==
    b[1] * 65536
    + (IF Len(b) >= 2 THEN b[2] * 256 ELSE 0)
    + (IF Len(b) >= 3 THEN b[3] ELSE 0)

RECURSIVE B64EncodeNoPad(_)
B64EncodeNoPad(b) ==
    IF Len(b) = 0 THEN ""
    ELSE LET n == Group24(b)
             c1 == B64Char(n \div 262144)
             c2 == B64Char((n \div 4096) % 64)
             c3 == B64Char((n \div 64) % 64)
             c4 == B64Char(n % 64)
         IN  IF Len(b) = 1 THEN c1 \o c2
             ELSE IF Len(b) = 2 THEN c1 \o c2 \o c3
             ELSE c1 \o c2 \o c3 \o c4 \o B64EncodeNoPad(SubSeq(b, 4, Len(b)))

\* base64.b64encode(b).decode("utf-8")
RECURSIVE B64Encode(_)
B64Encode(b) ==
    IF Len(b) = 0 THEN ""
    ELSE LET n == Group24(b)
             c1 == B64Char(n \div 262144)
             c2 == B64Char((n \div 4096) % 64)
             c3 == B64Char((n \div 64) % 64)
             c4 == B64Char(n % 64)
         IN  IF Len(b) = 1 THEN c1 \o c2 \o "=="
             ELSE IF Len(b) = 2 THEN c1 \o c2 \o c3 \o "="
             ELSE c1 \o c2 \o c3 \o c4 \o B64Encode(SubSeq(b, 4, Len(b)))

B64Index(c) == CHOOSE i \in 0..63 : B64Char(i) = c

\* base64.b64decode(s) of a padded base64 text: what a client of the data
\* URI computes
RECURSIVE B64Decode(_)
B64Decode(s) ==
    IF Len(s) < 4 THEN <<>>
    ELSE LET pad3 == Char(s, 3) = "="
             pad4 == Char(s, 4) = "="
             n == B64Index(Char(s, 1)) * 262144
                  + B64Index(Char(s, 2)) * 4096
                  + (IF pad3 THEN 0 ELSE B64Index(Char(s, 3)) * 64)
                  + (IF pad4 THEN 0 ELSE B64Index(Char(s, 4)))
             b1 == n \div 65536
             b2 == (n \div 256) % 256
             b3 == n % 256
         IN  IF pad3 THEN <<b1>>
             ELSE IF pad4 THEN <<b1, b2>>
             ELSE <<b1, b2, b3>> \o B64Decode(SubSeq(s, 5, Len(s)))

---------------------------------------------------------------------------
(* Values exchanged with the external services.                            *)

\* a response part: part.text and part.inline_data.data ("" and <<>> stand
\* for None or empty, which the code's truth tests do not tell apart)
TextPart(t)  == [text |-> t, has_inline |-> FALSE, data |-> <<>>]
ImagePart(b) == [text |-> "", has_inline |-> TRUE, data |-> b]
EmptyInline  == [text |-> "", has_inline |-> TRUE, data |-> <<>>]
BlankPart    == [text |-> "", has_inline |-> FALSE, data |-> <<>>]

\* one candidate of a non-streaming response: candidate.content.parts
Candidate(ps) == [parts_none |-> FALSE, parts |-> ps]
NoPartsCandidate == [parts_none |-> TRUE, parts |-> <<>>]

TextReturned(t) == [kind |-> "text", text |-> t, message |-> ""]
TextNone        == [kind |-> "none", text |-> "", message |-> ""]
TextRaised(m)   == [kind |-> "raise", text |-> "", message |-> m]
TextUnbound     == [kind |-> "unbound", text |-> "", message |-> ""]

ImageReturned(cs) == [kind |-> "candidates", candidates |-> cs, message |-> ""]
ImageRaised(m)    == [kind |-> "raise", candidates |-> <<>>, message |-> m]
ImageUnbound      == [kind |-> "unbound", candidates |-> <<>>, message |-> ""]

\* the dict imgbb_response.json() returns
ImgbbDict(hs, s, he, hm, m, hd, u) ==
    [bound |-> TRUE, has_success |-> hs, success |-> s, has_error |-> he,
     has_message |-> hm, message |-> m, has_data |-> hd, url |-> u]
\* imgbb_data before api.py:155 has assigned it
ImgbbUnbound ==
    [bound |-> FALSE, has_success |-> FALSE, success |-> FALSE, has_error |-> FALSE,
     has_message |-> FALSE, message |-> "", has_data |-> FALSE, url |-> ""]

UploadReturned(d) == [kind |-> "json", body |-> d, message |-> ""]
UploadRaised(m)   == [kind |-> "raise", body |-> ImgbbUnbound, message |-> m]

\* an exception travelling to the except clause of api.py:169
HTTPException(detail) == [type |-> "HTTPException", text |-> detail]
OtherException(text)  == [type |-> "Exception", text |-> text]

---------------------------------------------------------------------------
(* The inputs the model draws from.                                        *)

ByteVals == {0, 77, 255}

\* the image payloads: every byte string over ByteVals of 1..MaxBytes bytes
Payloads == UNION { [1..n -> ByteVals] : n \in 1..MaxBytes }

PayloadA == <<255, 0>>
PayloadB == <<77>>

HostedUrl == "https://i.ibb.co/x/a.png"

FullDomain ==
    [requests |->
        [title : {"", "Cat"}, description : {"", "on a mat"},
         add_text_overlay : BOOLEAN, enhance_prompt : BOOLEAN,
         upload_imgbb : BOOLEAN],
     text |->
        {TextRaised("API key not valid"), TextNone}
        \cup {TextReturned(t) : t \in {"", " \n", "A cat", "  A cat on a mat \n"}},
     image |->
        {ImageRaised("quota exceeded"),
         ImageReturned(<<>>),
         ImageReturned(<<NoPartsCandidate>>),
         ImageReturned(<<Candidate(<<>>)>>),
         ImageReturned(<<Candidate(<<TextPart("no image")>>)>>),
         ImageReturned(<<Candidate(<<EmptyInline, BlankPart>>)>>),
         ImageReturned(<<Candidate(<<TextPart("no")>>),
                         Candidate(<<ImagePart(PayloadA)>>)>>),
         ImageReturned(<<Candidate(<<EmptyInline, ImagePart(PayloadB),
                                     ImagePart(PayloadA)>>)>>)}
        \cup {ImageReturned(<<Candidate(<<TextPart("done"), ImagePart(p)>>)>>) :
                p \in Payloads},
     upload |->
        {UploadRaised("Connection refused"),
         UploadRaised("Expecting value: line 1 column 1 (char 0)"),
         UploadReturned(ImgbbDict(TRUE, TRUE, FALSE, FALSE, "", TRUE, HostedUrl)),
         UploadReturned(ImgbbDict(TRUE, TRUE, FALSE, FALSE, "", FALSE, "")),
         UploadReturned(ImgbbDict(TRUE, FALSE, TRUE, TRUE, "quota exceeded", FALSE, "")),
         UploadReturned(ImgbbDict(FALSE, FALSE, TRUE, TRUE, "Invalid API v1 key.", FALSE, "")),
         UploadReturned(ImgbbDict(TRUE, FALSE, TRUE, TRUE, "rate limited", TRUE, HostedUrl)),
         UploadReturned(ImgbbDict(TRUE, FALSE, TRUE, FALSE, "", FALSE, "")),
         UploadReturned(ImgbbDict(TRUE, FALSE, FALSE, FALSE, "", FALSE, "")),
         UploadReturned(ImgbbDict(FALSE, FALSE, FALSE, FALSE, "", TRUE, HostedUrl)),
         UploadReturned(ImgbbDict(FALSE, FALSE, FALSE, FALSE, "", FALSE, ""))}]

\* the inputs of the requests that run concurrently
SmallDomain ==
    [requests |->
        [title : {"Cat"}, description : {"on a mat"},
         add_text_overlay : {FALSE}, enhance_prompt : BOOLEAN,
         upload_imgbb : BOOLEAN],
     text |-> {TextRaised("API key not valid"), TextNone, TextReturned(" A cat ")},
     image |->
        {ImageRaised("quota exceeded"),
         ImageReturned(<<NoPartsCandidate>>),
         ImageReturned(<<Candidate(<<TextPart("no image")>>)>>),
         ImageReturned(<<Candidate(<<ImagePart(PayloadA)>>)>>)},
     upload |->
        {UploadRaised("Connection refused"),
         UploadReturned(ImgbbDict(TRUE, TRUE, FALSE, FALSE, "", TRUE, HostedUrl)),
         UploadReturned(ImgbbDict(TRUE, TRUE, FALSE, FALSE, "", FALSE, "")),
         UploadReturned(ImgbbDict(TRUE, FALSE, TRUE, TRUE, "quota exceeded", FALSE, ""))}]

---------------------------------------------------------------------------
(* generate_image (api.py:59-171), one instance per request.               *)

\* api.py:99-101: the prompt when enhancement is skipped
PlainPrompt(req) ==
    LET enhanced_prompt == req.title \o ", " \o req.description
    IN  IF req.add_text_overlay
        THEN enhanced_prompt \o " Text overlay: '" \o req.title \o "'"
        ELSE enhanced_prompt

\* api.py:97 without the strip
EnhancedFromRaw(text) == text

\* api.py:97: text_response.text.strip()
EnhancedFrom(text) == Strip(text)

\* the last part with data instead of the first
RECURSIVE LastInlineData(_)
LastInlineData(parts) ==
    IF parts = <<>> THEN <<>>
    ELSE LET rest == LastInlineData(Tail(parts))
         IN  IF rest # <<>> THEN rest
             ELSE IF Head(parts).has_inline /\ Head(parts).data # <<>>
                  THEN Head(parts).data
                  ELSE <<>>

\* api.py:133-136: the data of the first part with non-empty inline data, the
\* loop breaking there; <<>> (image_data stays None) when the loop ends
RECURSIVE FirstInlineData(_)
FirstInlineData(parts) ==
    IF parts = <<>> THEN <<>>
    ELSE IF Head(parts).has_inline /\ Head(parts).data # <<>>
         THEN Head(parts).data
         ELSE FirstInlineData(Tail(parts))

\* api.py:131-136: only the first candidate is read
ExtractImageData(candidates) ==
    IF candidates # <<>> THEN FirstInlineData(candidates[1].parts) ELSE <<>>

\* no check at all
AnyImageData(image_data) == TRUE

\* api.py:138: the complement of "if not image_data"
HasImageData(image_data) == image_data # <<>>

\* a banner burned into the image: some other byte string
Banner(image_data) == image_data \o <<0>>

\* the bytes encoded once a banner stage transforms them
BytesWithBanner(req, image_data) ==
    IF req.add_text_overlay THEN Banner(image_data) ELSE image_data

\* api.py:142: the bytes that are encoded and delivered are image_data itself,
\* whatever the request's flags
BytesToEncode(req, image_data) == image_data

\* an upload whatever the flag
UploadAlways(req) == TRUE

\* api.py:145
UploadRequested(req) == req.upload_imgbb

\* the fallback literal whatever the host reports
UploadErrorMessageFallbackOnly(imgbb_data) == "Unknown Upload Error"

\* api.py:157: imgbb_data.get("error", {}).get("message", "Unknown Upload Error")
UploadErrorMessage(imgbb_data) ==
    IF imgbb_data.has_error /\ imgbb_data.has_message
    THEN imgbb_data.message
    ELSE "Unknown Upload Error"

\* api.py:163
DataUri(image_b64) == "data:image/jpeg;base64," \o image_b64

\* a handler that answers with a fixed text
StrExceptionGeneric(e) == "Internal Server Error"

\* api.py:171: str(e); an HTTPException prints as "<status_code>: <detail>"
StrException(e) ==
    IF e.type = "HTTPException" THEN "500: " \o e.text ELSE e.text

NoLocals ==
    [enhanced_prompt |-> "", text_response |-> TextUnbound,
     response |-> ImageUnbound, image_data |-> <<>>, image_b64 |-> "",
     imgbb_data |-> ImgbbUnbound, image_url |-> ""]

NoOutcome == [status |-> 0, image_url |-> "", detail |-> ""]

\* api.py:169-171: whatever the try block raised becomes one HTTP 500
Raise(r, e) ==
    /\ pc' = [pc EXCEPT ![r] = "failed"]
    /\ cause' = [cause EXCEPT ![r] = e.text]
    /\ outcome' = [outcome EXCEPT ![r] =
                      [status |-> 500, image_url |-> "", detail |-> StrException(e)]]

\* api.py:165-167
Return(r, image_url) ==
    /\ pc' = [pc EXCEPT ![r] = "done"]
    /\ outcome' = [outcome EXCEPT ![r] =
                      [status |-> 200, image_url |-> image_url, detail |-> ""]]
    /\ UNCHANGED cause

\* api.py:73-101, step 1
EnhancePrompt(r, D) ==
    /\ running
    /\ pc[r] = "enhance"
    /\ UNCHANGED <<request, kaVars, dashVars>>
    /\ \/ /\ ~request[r].enhance_prompt
          /\ local' = [local EXCEPT ![r].enhanced_prompt = PlainPrompt(request[r])]
          /\ pc' = [pc EXCEPT ![r] = "generate"]
          /\ UNCHANGED <<calls, cause, outcome>>
       \/ /\ request[r].enhance_prompt
          /\ calls' = [calls EXCEPT ![r] = Append(@, "text")]
          /\ \E t \in D.text :
               \/ /\ t.kind = "raise"
                  /\ Raise(r, OtherException(t.message))
                  /\ UNCHANGED local
               \/ /\ t.kind = "none"
                  /\ local' = [local EXCEPT ![r].text_response = t]
                  /\ Raise(r, OtherException("'NoneType' object has no attribute 'strip'"))
               \/ /\ t.kind = "text"
                  /\ local' = [local EXCEPT ![r].text_response = t,
                                            ![r].enhanced_prompt = EnhancedFrom(t.text)]
                  /\ pc' = [pc EXCEPT ![r] = "generate"]
                  /\ UNCHANGED <<cause, outcome>>

\* api.py:103-142, step 2: the call, the extraction, the encoding
GenerateImage(r, D) ==
    /\ running
    /\ pc[r] = "generate"
    /\ UNCHANGED <<request, kaVars, dashVars>>
    /\ calls' = [calls EXCEPT ![r] = Append(@, "image")]
    /\ \E res \in D.image :
         \/ /\ res.kind = "raise"
            /\ Raise(r, OtherException(res.message))
            /\ UNCHANGED local
         \/ /\ res.kind = "candidates"
            /\ res.candidates # <<>> /\ res.candidates[1].parts_none
            /\ local' = [local EXCEPT ![r].response = res]
            /\ Raise(r, OtherException("'NoneType' object is not iterable"))
         \/ /\ res.kind = "candidates"
            /\ ~(res.candidates # <<>> /\ res.candidates[1].parts_none)
            /\ LET image_data == ExtractImageData(res.candidates)
               IN  \/ /\ ~HasImageData(image_data)
                      /\ local' = [local EXCEPT ![r].response = res,
                                                ![r].image_data = image_data]
                      /\ Raise(r, HTTPException("The model did not return image data."))
                   \/ /\ HasImageData(image_data)
                      /\ local' = [local EXCEPT
                            ![r].response = res,
                            ![r].image_data = image_data,
                            ![r].image_b64 =
                                B64Encode(BytesToEncode(request[r], image_data))]
                      /\ pc' = [pc EXCEPT ![r] = "deliver"]
                      /\ UNCHANGED <<cause, outcome>>

\* api.py:144-167, step 3
DeliverImage(r, D) ==
    /\ running
    /\ pc[r] = "deliver"
    /\ UNCHANGED <<request, kaVars, dashVars>>
    /\ \/ /\ ~UploadRequested(request[r])
          /\ LET image_url == DataUri(local[r].image_b64)
             IN  /\ local' = [local EXCEPT ![r].image_url = image_url]
                 /\ Return(r, image_url)
          /\ UNCHANGED calls
       \/ /\ UploadRequested(request[r])
          /\ calls' = [calls EXCEPT ![r] = Append(@, "upload")]
          /\ \E u \in D.upload :
               \/ /\ u.kind = "raise"
                  /\ Raise(r, OtherException(u.message))
                  /\ UNCHANGED local
               \/ /\ u.kind = "json"
                  /\ ~(u.body.has_success /\ u.body.success)
                  /\ local' = [local EXCEPT ![r].imgbb_data = u.body]
                  /\ Raise(r, HTTPException("ImgBB Upload Failed: "
                                            \o UploadErrorMessage(u.body)))
               \/ /\ u.kind = "json"
                  /\ u.body.has_success /\ u.body.success
                  /\ ~u.body.has_data
                  /\ local' = [local EXCEPT ![r].imgbb_data = u.body]
                  /\ Raise(r, OtherException("'data'"))
               \/ /\ u.kind = "json"
                  /\ u.body.has_success /\ u.body.success
                  /\ u.body.has_data
                  /\ local' = [local EXCEPT ![r].imgbb_data = u.body,
                                            ![r].image_url = u.body.url]
                  /\ Return(r, u.body.url)

\* the requests R have arrived, with bodies from D
InitRequests(R, D) ==
    /\ request \in [R -> D.requests]
    /\ pc = [r \in R |-> "enhance"]
    /\ local = [r \in R |-> NoLocals]
    /\ calls = [r \in R |-> <<>>]
    /\ cause = [r \in R |-> ""]
    /\ outcome = [r \in R |-> NoOutcome]

\* the keep_awake thread is not part of the run
NoKeepAwake == ka_pc = "off" /\ ka_last = "none" /\ running = TRUE

\* the dashboard is not part of the run
NoDashboard ==
    /\ st_pc = "off" /\ seen = <<>> /\ image_found = FALSE /\ shown = <<>>
    /\ messages = <<>> /\ notice = FALSE
    /\ api_result = [status |-> "none", image_data |-> <<>>]

(* One request through generate_image, over the full input sets.           *)
OneRequest == {1}

Init == InitRequests(OneRequest, FullDomain) /\ NoKeepAwake /\ NoDashboard

Next ==
    \E r \in OneRequest :
        \/ EnhancePrompt(r, FullDomain)
        \/ GenerateImage(r, FullDomain)
        \/ DeliverImage(r, FullDomain)

Spec == Init /\ [][Next]_vars

---------------------------------------------------------------------------
(* keep_awake (api.py:12-24), started by lifespan (api.py:26-34).          *)

\* requests.get returned: "Ping successful!"
KeepAwakePingOk ==
    /\ running /\ ka_pc = "ping"
    /\ ka_pc' = "sleep" /\ ka_last' = "ok"
    /\ UNCHANGED <<running, reqVars, dashVars>>

\* an except clause outside the while loop: the thread ends
KeepAwakePingFailsAndExits ==
    /\ running /\ ka_pc = "ping"
    /\ ka_pc' = "exited" /\ ka_last' = "failed"
    /\ UNCHANGED <<running, reqVars, dashVars>>

\* requests.get raised (api.py:23-24): the message is printed and the while
\* loop goes on with the next iteration
KeepAwakePingFails ==
    /\ running /\ ka_pc = "ping"
    /\ ka_pc' = "sleep" /\ ka_last' = "failed"
    /\ UNCHANGED <<running, reqVars, dashVars>>

\* time.sleep(780) returned (api.py:18)
KeepAwakeSleep ==
    /\ running /\ ka_pc = "sleep"
    /\ ka_pc' = "ping"
    /\ UNCHANGED <<ka_last, running, reqVars, dashVars>>

\* the server process ends (api.py:32-34); the daemon thread ends with it
Shutdown ==
    /\ running
    /\ running' = FALSE
    /\ UNCHANGED <<ka_pc, ka_last, reqVars, dashVars>>

(* The server: two concurrent requests and the keep_awake thread.          *)
Requests == {1, 2}

ServerInit ==
    /\ InitRequests(Requests, SmallDomain)
    /\ ka_pc = "sleep" /\ ka_last = "none" /\ running = TRUE
    /\ NoDashboard

ServerNext ==
    \/ \E r \in Requests :
          \/ EnhancePrompt(r, SmallDomain)
          \/ GenerateImage(r, SmallDomain)
          \/ DeliverImage(r, SmallDomain)
    \/ KeepAwakeSleep
    \/ KeepAwakePingOk
    \/ KeepAwakePingFails
    \/ Shutdown

\* time.sleep returns and requests.get(url, timeout=10) returns or raises;
\* the calls of generate_image have no timeout and get no fairness
ServerSpec ==
    /\ ServerInit
    /\ [][ServerNext]_vars
    /\ WF_vars(KeepAwakeSleep)
    /\ WF_vars(KeepAwakePingOk \/ KeepAwakePingFails)

---------------------------------------------------------------------------
(* The dashboard's streaming loop (app.py:86-111), and api.py:130-139 on   *)
(* the same parts.                                                         *)

StreamParts ==
    {TextPart("hello"), TextPart(" "), EmptyInline,
     ImagePart(PayloadA), ImagePart(PayloadB)}

\* chunk.parts of one chunk: None, or at most k parts
Chunks(k) ==
    {NoPartsCandidate} \cup
    { Candidate(ps) : ps \in UNION { [1..n -> StreamParts] : n \in 0..k } }

\* app.py:91-108: the inner loop over the parts of one chunk
RECURSIVE ShowParts(_, _)
ShowParts(parts, st) ==
    IF parts = <<>> THEN st
    ELSE LET part == Head(parts)
             next ==
                 IF part.has_inline /\ part.data # <<>>
                 THEN [st EXCEPT !.image_found = TRUE,
                                 !.shown = Append(@, part.data)]
                 ELSE IF part.text # "" /\ Strip(part.text) # ""
                      THEN [st EXCEPT !.messages = Append(@, part.text)]
                      ELSE st
         IN  ShowParts(Tail(parts), next)

\* app.py:87-108: one iteration of "for chunk in response_stream"
StreamChunk ==
    /\ st_pc = "streaming"
    /\ \E chunk \in Chunks(MaxParts - Len(seen)) :
         IF chunk.parts_none
         THEN UNCHANGED <<seen, image_found, shown, messages>>
         ELSE LET st == ShowParts(chunk.parts,
                          [image_found |-> image_found, shown |-> shown,
                           messages |-> messages])
              IN  /\ seen' = seen \o chunk.parts
                  /\ image_found' = st.image_found
                  /\ shown' = st.shown
                  /\ messages' = st.messages
    /\ UNCHANGED <<st_pc, notice, api_result, reqVars, kaVars>>

\* app.py:110-111: the stream is exhausted
StreamEnd ==
    /\ st_pc = "streaming"
    /\ st_pc' = "ended"
    /\ notice' = ~image_found
    /\ UNCHANGED <<seen, image_found, shown, messages, api_result, reqVars, kaVars>>

\* app.py:113-114: the stream raised; st.error shows the exception
StreamRaise ==
    /\ st_pc = "streaming"
    /\ st_pc' = "error"
    /\ UNCHANGED <<seen, image_found, shown, messages, notice, api_result,
                   reqVars, kaVars>>

\* api.py:130-139 on a response whose first candidate holds the same parts
ApiExtract ==
    /\ st_pc = "ended" /\ api_result.status = "none"
    /\ LET image_data == ExtractImageData(<<Candidate(seen)>>)
       IN  api_result' =
             IF HasImageData(image_data)
             THEN [status |-> "ok", image_data |-> image_data]
             ELSE [status |-> "error", image_data |-> <<>>]
    /\ UNCHANGED <<st_pc, seen, image_found, shown, messages, notice,
                   reqVars, kaVars>>

ExtractInit ==
    /\ InitRequests({}, FullDomain)
    /\ NoKeepAwake
    /\ st_pc = "streaming" /\ seen = <<>> /\ image_found = FALSE /\ shown = <<>>
    /\ messages = <<>> /\ notice = FALSE
    /\ api_result = [status |-> "none", image_data |-> <<>>]

ExtractNext == StreamChunk \/ StreamEnd \/ StreamRaise \/ ApiExtract

ExtractSpec == ExtractInit /\ [][ExtractNext]_vars

---------------------------------------------------------------------------
(* Properties.                                                             *)

Count(seq, x) == Cardinality({ i \in 1..Len(seq) : seq[i] = x })

Called(r, capability) == capability \in Range(calls[r])

DataUriPrefix == "data:image/jpeg;base64,"

\* what a client gets back from a data URI
DecodeDataUri(uri) == B64Decode(SubSeq(uri, Len(DataUriPrefix) + 1, Len(uri)))

IsImagePart(part) == part.has_inline /\ part.data # <<>>

AllWhitespace(s) == \A i \in 1..Len(s) : Char(s, i) \in Whitespace

\* p is t without its leading and trailing whitespace
IsTrimOf(p, t) ==
    /\ p = "" \/ (Char(p, 1) \notin Whitespace /\ Char(p, Len(p)) \notin Whitespace)
    /\ \E i \in 0..Len(t) :
         /\ i + Len(p) <= Len(t)
         /\ AllWhitespace(SubSeq(t, 1, i))
         /\ SubSeq(t, i + 1, i + Len(p)) = p
         /\ AllWhitespace(SubSeq(t, i + Len(p) + 1, Len(t)))

StageRank(capability) ==
    CASE capability = "text" -> 1
      [] capability = "image" -> 2
      [] capability = "upload" -> 3
      [] OTHER -> 0

\* C1: a run that ends in success returns exactly one variant, chosen by
\* upload_imgbb: with the flag the URL the upload host reported, after one
\* upload call; without it a data URI, and no upload call is made in the run.
C1_OneVariantByFlag ==
    \A r \in DOMAIN pc :
       /\ ~request[r].upload_imgbb => ~Called(r, "upload")
       /\ outcome[r].status = 200 =>
            IF request[r].upload_imgbb
            THEN /\ Count(calls[r], "upload") = 1
                 /\ local[r].imgbb_data.bound /\ local[r].imgbb_data.has_data
                 /\ outcome[r].image_url = local[r].imgbb_data.url
                 /\ ~StartsWith(outcome[r].image_url, "data:")
            ELSE StartsWith(outcome[r].image_url, DataUriPrefix)

C1_Witness ==
    \E r \in DOMAIN pc :
       /\ outcome[r].status = 200 /\ request[r].upload_imgbb
       /\ outcome[r].image_url = HostedUrl /\ Called(r, "upload")

C3_FailureState ==
    \A r \in DOMAIN pc :
       /\ (Called(r, "text") /\ local[r].text_response.kind # "text") =>
             /\ pc[r] = "failed" /\ calls[r] = <<"text">>
             /\ local[r].enhanced_prompt = ""
       /\ (Called(r, "image") /\ local[r].image_data = <<>>) =>
             /\ pc[r] = "failed" /\ ~Called(r, "upload")
       /\ (Called(r, "upload") /\
             ~(local[r].imgbb_data.bound /\ local[r].imgbb_data.has_success
               /\ local[r].imgbb_data.success /\ local[r].imgbb_data.has_data)) =>
             pc[r] = "failed"
       /\ pc[r] = "failed" =>
             /\ outcome[r].status = 500
             /\ cause[r] # "" /\ Contains(outcome[r].detail, cause[r])
             /\ outcome[r].image_url = "" /\ local[r].image_url = ""
       /\ pc[r] # "failed" => outcome[r].status # 500

C3_FailureIsFinal ==
    \A r \in DOMAIN pc :
       pc[r] = "failed" =>
          /\ pc'[r] = "failed" /\ calls'[r] = calls[r]
          /\ outcome'[r] = outcome[r] /\ local'[r] = local[r]

C3_FailureAborts == []C3_FailureState /\ [][C3_FailureIsFinal]_vars

C3_Witness ==
    \E r \in DOMAIN pc :
       /\ pc[r] = "failed" /\ calls[r] = <<"text">>
       /\ cause[r] = "API key not valid"
       /\ outcome[r].detail = "API key not valid"

\* C4 as claimed: with add_text_overlay an overlay stage runs between image
\* generation and delivery.
C4_AsClaimed ==
    \A r \in DOMAIN pc :
       (request[r].add_text_overlay /\ outcome[r].status = 200) =>
           Called(r, "overlay")

\* C4 amended: with add_text_overlay no overlay stage runs; the flag only
\* changes the prompt, and the bytes encoded and delivered are exactly the
\* bytes extracted from the image model's response.
C4_NoOverlayStage ==
    \A r \in DOMAIN pc :
       request[r].add_text_overlay =>
          /\ Range(calls[r]) \subseteq {"text", "image", "upload"}
          /\ (pc[r] \in {"generate", "deliver", "done"} /\ ~request[r].enhance_prompt) =>
                Contains(local[r].enhanced_prompt,
                         " Text overlay: '" \o request[r].title \o "'")
          /\ pc[r] \in {"deliver", "done"} =>
                /\ local[r].image_data = ExtractImageData(local[r].response.candidates)
                /\ B64Decode(local[r].image_b64) = local[r].image_data
          /\ (outcome[r].status = 200 /\ ~request[r].upload_imgbb) =>
                DecodeDataUri(outcome[r].image_url) = local[r].image_data

C4_Witness ==
    \E r \in DOMAIN pc :
       /\ request[r].add_text_overlay /\ ~request[r].enhance_prompt
       /\ ~request[r].upload_imgbb /\ outcome[r].status = 200

\* C5: with enhance_prompt false the text model is never called and the prompt
\* sent to the image model is "{title}, {description}", plus the suffix
\* " Text overlay: '{title}'" iff add_text_overlay; with enhance_prompt true
\* the prompt is the text model's text, trimmed.
C5_PromptSent ==
    \A r \in DOMAIN pc :
       /\ ~request[r].enhance_prompt => ~Called(r, "text")
       /\ Called(r, "image") =>
            IF request[r].enhance_prompt
            THEN /\ local[r].text_response.kind = "text"
                 /\ IsTrimOf(local[r].enhanced_prompt, local[r].text_response.text)
            ELSE local[r].enhanced_prompt =
                    request[r].title \o ", " \o request[r].description \o
                    (IF request[r].add_text_overlay
                     THEN " Text overlay: '" \o request[r].title \o "'"
                     ELSE "")

C5_Witness ==
    \E r \in DOMAIN pc :
       /\ Called(r, "image") /\ request[r].enhance_prompt
       /\ local[r].enhanced_prompt = "A cat on a mat"
       /\ local[r].text_response.text # local[r].enhanced_prompt

C7_AsClaimed ==
    \A r \in DOMAIN pc :
       Called(r, "image") => local[r].enhanced_prompt # ""

\* C8: for a successful request with upload_imgbb false, the data URI without
\* its 'data:image/jpeg;base64,' prefix, base64-decoded, is exactly the bytes
\* extracted from the image model's response.
C8_DataUriRoundTrip ==
    \A r \in DOMAIN pc :
       (outcome[r].status = 200 /\ ~request[r].upload_imgbb) =>
          /\ StartsWith(outcome[r].image_url, DataUriPrefix)
          /\ DecodeDataUri(outcome[r].image_url) =
                SelectSeq(local[r].response.candidates[1].parts, IsImagePart)[1].data

C8_Witness ==
    \E r \in DOMAIN pc :
       /\ outcome[r].status = 200 /\ ~request[r].upload_imgbb
       /\ Len(local[r].image_data) = 2
       /\ local[r].image_data[1] # local[r].image_data[2]

\* C9: every keep_awake iteration sleeps, then pings; a failed ping never ends
\* the loop: while the process runs another ping follows; the thread and the
\* requests leave each other's state alone, and a request that is under way
\* can take its next step whatever the thread is doing.
C9_SleepThenPing ==
    ka_pc' # ka_pc =>
       \/ ka_pc = "sleep" /\ ka_pc' = "ping" /\ ka_last' = ka_last
       \/ ka_pc = "ping" /\ ka_pc' = "sleep" /\ ka_last' \in {"ok", "failed"}

C9_NoSharedState ==
    /\ (ka_pc' # ka_pc \/ ka_last' # ka_last) => UNCHANGED reqVars
    /\ (reqVars' # reqVars) => UNCHANGED <<ka_pc, ka_last, running>>

C9_RequestCanStep ==
    \A r \in DOMAIN pc :
       running =>
          /\ pc[r] = "enhance" => ENABLED EnhancePrompt(r, SmallDomain)
          /\ pc[r] = "generate" => ENABLED GenerateImage(r, SmallDomain)
          /\ pc[r] = "deliver" => ENABLED DeliverImage(r, SmallDomain)

C9_KeepAwakeGoesOn ==
    /\ (ka_last = "failed") ~> (ka_pc = "ping" \/ ~running)
    /\ [](ka_pc \in {"sleep", "ping"})
    /\ [][C9_SleepThenPing]_vars
    /\ [][C9_NoSharedState]_vars
    /\ []C9_RequestCanStep

C9_Witness ==
    /\ running /\ ka_last = "failed" /\ ka_pc = "ping"
    /\ \E r \in DOMAIN pc : pc[r] = "deliver"

\* C10: in one request the capabilities are invoked in the order text, image,
\* upload, each at most once and only after the stage before it succeeded:
\* image after the prompt is set, upload after non-empty image data was
\* extracted; a step of one request changes nothing of another, and a
\* request's answer is fixed by its own locals.
C10_OrderedOnce ==
    \A r \in DOMAIN pc :
       /\ \A i, j \in 1..Len(calls[r]) :
             i < j => 0 < StageRank(calls[r][i]) /\ StageRank(calls[r][i]) < StageRank(calls[r][j])
       /\ Called(r, "text") => request[r].enhance_prompt
       /\ Called(r, "image") =>
             /\ pc[r] # "enhance"
             /\ request[r].enhance_prompt =>
                   (Called(r, "text") /\ local[r].text_response.kind = "text")
       /\ Called(r, "upload") =>
             /\ Called(r, "image") /\ request[r].upload_imgbb
             /\ local[r].image_data # <<>>
             /\ local[r].image_data \in Range(
                   [i \in 1..Len(local[r].response.candidates[1].parts) |->
                       local[r].response.candidates[1].parts[i].data])
             /\ B64Decode(local[r].image_b64) = local[r].image_data
       /\ outcome[r].status = 200 =>
             outcome[r].image_url =
                IF request[r].upload_imgbb
                THEN local[r].imgbb_data.url
                ELSE DataUriPrefix \o local[r].image_b64

C10_Isolated ==
    \A r \in DOMAIN pc :
       pc'[r] # pc[r] =>
          /\ request' = request
          /\ \A q \in DOMAIN pc \ {r} :
                /\ pc'[q] = pc[q] /\ local'[q] = local[q]
                /\ calls'[q] = calls[q] /\ outcome'[q] = outcome[q]
                /\ cause'[q] = cause[q]

C10_SequentialAndIsolated == []C10_OrderedOnce /\ [][C10_Isolated]_vars

C10_Witness ==
    /\ pc[1] = "done" /\ calls[1] = <<"text", "image", "upload">>
    /\ pc[2] = "failed" /\ calls[2] = <<"image">>

=============================================================================
